---- MODULE Spec2Model ----
(***************************************************************************)
(* Batch PDF OCR pipeline of run_dpsk_ocr_pdf_batch.py: the main loop over *)
(* the discovered PDF files and process_single_pdf, step by step, with the *)
(* output directory of every document as a small file system.              *)
(*                                                                         *)
(* A generated page text is a sequence of tokens: location tags            *)
(* <|ref|>label<|/ref|><|det|>coords<|/det|>, body text, single newlines,   *)
(* the two LaTeX escapes and the end-of-sentence sentinel.  Under Spec the *)
(* tags of one page carry pairwise distinct coordinate texts, each         *)
(* decodable to one non-degenerate 4-tuple; SpecPage starts inside the     *)
(* page loop of the last document with page texts whose tags also carry    *)
(* undecodable, short, mixed and degenerate coordinate texts; SpecPixel    *)
(* applies the coordinate mapping of process_image_with_refs to every      *)
(* normalized coordinate and a range of bitmap dimensions.                 *)
(* Wall-clock values (elapsed_time) are left out of the result records.    *)
(***************************************************************************)
EXTENDS Integers, Sequences, FiniteSets, TLC

\* Bounds of the model.
NumDocs == 2
MaxPages == 2
MaxRefs == 2
MaxBlank == 4
MaxDim == 120
NUM_WORKERS == 2
ImageWidth == 1000
ImageHeight == 1000
MaxApplications == 3
MaxOps == 3

\* The divisor of the coordinate mapping.
Scale == 999

Docs == 1..NumDocs
Labels == {"image", "title"}
Priors == {"fresh", "done"}

VARIABLES
    pc,              \* position of the controlling thread
    pdf_files,       \* number of PDF files glob found in INPUT_PATH
    summary,         \* the statistics __main__ prints after the loop
    i,               \* index of the main loop over pdf_files (1-based)
    results,         \* the list results of __main__
    files,           \* files[d]: file name -> content, in the output directory of d
    dirs,            \* dirs[d]: 0 no directory, 1 <out>/<name>, 2 also <out>/<name>/images
    files0,          \* the files as the run found them
    SKIP_REPEAT,     \* config.SKIP_REPEAT
    images,          \* number of page bitmaps of the current document (page p is bitmap p)
    batch_inputs,    \* batch_inputs[j]: the page the j-th request was built from
    outputs_list,    \* outputs_list[j]: generated text of the j-th request
    k,               \* position of the post-processing loop in zip(outputs_list, images)
    contents_det,    \* tagged transcript built so far
    contents,        \* clean transcript built so far
    draw_images,     \* pages of the annotated PDF built so far
    jdx,             \* jdx of process_single_pdf
    processed_pages, \* processed_pages of process_single_pdf
    saved,           \* crops saved for the current document, in order of the save calls
    boxes,           \* boxes drawn for the current document, in order of the draw calls
    futures,         \* futures[p]: state of the executor task for page bitmap p
    finished,        \* the tasks of the last executor in the order their threads completed them
    linked,          \* image links put into the clean text of the current document
    calls,           \* calls[d]: how often rasterizer, request builder and gateway ran for d
    existed,         \* documents whose <name>.mmd existed when the batch reached them
    raised,          \* raised[d]: str(e) of the exception raised while processing d, or ""
    coordinate,      \* a normalized coordinate of a region (x1, y1, x2 or y2)
    dimension,       \* image_width or image_height of the bitmap it is mapped to
    pixel,           \* the pixel coordinate computed from them
    fpc,             \* position of the T4CompatibilityFixer in its menu loop
    op,              \* the operation of the fixer that is running, or "none"
    vllm_files,      \* file name -> content, under <project>/DeepSeek-OCR-vllm
    directories,     \* the input and output directories under DeepSeek-OCR-vllm
    backup,          \* self.backup_dir: whether it exists, its copies, its markers
    stats,           \* self.stats
    backed_up,       \* create_backup has returned True in the running operation
    original,        \* vllm_files as the fixer instance found them
    before,          \* vllm_files when the running operation was chosen
    ops,             \* number of operations chosen in the menu so far
    returned,        \* what the last operation or fix returned
    filename,        \* the file a single fix is applied to
    modified_by,     \* the fixes that have modified that file
    applied          \* number of single fixes applied: to it, or in the running loop

locals == <<images, batch_inputs, outputs_list, k, contents_det, contents,
            draw_images, jdx, processed_pages, saved, linked, boxes, futures,
            finished>>
mapping == <<coordinate, dimension, pixel>>
fixer == <<fpc, op, vllm_files, directories, backup, stats, backed_up, original, before,
           ops, returned, filename, modified_by, applied>>
batch == <<pc, pdf_files, summary, i, results, files, dirs, files0, SKIP_REPEAT, locals,
           calls, existed, raised, mapping>>
vars == <<batch, fixer>>

\* The fixer is a program of its own: it does not run during a batch.
NoFixer ==
    /\ fpc = "off" /\ op = "none" /\ vllm_files = <<>> /\ directories = {}
    /\ backup = <<>> /\ stats = <<>> /\ backed_up = FALSE /\ original = <<>>
    /\ before = <<>>
    /\ ops = 0 /\ returned = "none" /\ filename = "" /\ modified_by = {}
    /\ applied = 0

----------------------------------------------------------------------------
\* Tokens of the generated text and of the transcripts.

Tag(label, det) == [kind |-> "tag", a |-> label, b |-> det]
Body(p) == [kind |-> "text", a |-> "Hello" \o ToString(p), b |-> ""]
EOS == [kind |-> "eos", a |-> "<|end_of_sentence|>", b |-> ""]
page_num == [kind |-> "split", a |-> "<--- Page Split --->", b |-> ""]
Link(name) == [kind |-> "link", a |-> name, b |-> ""]

Range(s) == {s[j] : j \in DOMAIN s}

\* File names of process_single_pdf, relative to the output directory of d.
pdf_name(d) == "doc" \o ToString(d)
mmd_path(d) == pdf_name(d) \o ".mmd"
mmd_det_path(d) == pdf_name(d) \o "_det.mmd"
pdf_out_path(d) == pdf_name(d) \o "_layouts.pdf"
CropPath(img_idx) == "images/" \o ToString(img_idx) \o ".jpg"
LinkPath(j, idx) == "images/" \o ToString(j) \o "_" \o ToString(idx) \o ".jpg"

\* What the run finds in the output directory of d: nothing (not even the
\* directory), or the outputs of an earlier run that completed d.
OldContent == <<[kind |-> "old", a |-> "", b |-> ""]>>
PriorFiles(d, pr) ==
    IF pr = "fresh" THEN <<>>
    ELSE (mmd_path(d) :> OldContent) @@ (mmd_det_path(d) :> OldContent)
         @@ (pdf_out_path(d) :> OldContent) @@ (CropPath(0) :> OldContent)
PriorDirs(pr) == IF pr = "fresh" THEN 0 ELSE 2

\* Coordinate texts.  CoordText(q) is the text of the q-th region of a page
\* under Spec; the others are the texts SpecPage adds.
Box(q) == <<0, 100 * (q - 1), 999, 100 * q - 1>>
CoordText(q) ==
    "[[0, " \o ToString(100 * (q - 1)) \o ", 999, " \o ToString(100 * q - 1) \o "]]"
FullPage == "[[0, 0, 999, 999]]"
TwoBoxes == "[[0, 0, 100, 100], [200, 200, 300, 300]]"
NotNumeric == "[[abc]]"
ThreeNumbers == "[[1, 2, 3]]"
BoxThenPair == "[[0, 0, 100, 100], [5, 6]]"
ZeroArea == "[[500, 500, 500, 500]]"
\* The label the lazy pattern of re_match captures from the text
\* <|ref|>figure<|ref|>image<|/ref|><|det|>...<|/det|>.
NestedImage == "figure<|ref|>image"
PageCoordTexts == {FullPage, TwoBoxes, NotNumeric, ThreeNumbers, BoxThenPair, ZeroArea}

\* extract_coordinates_and_label: eval(ref_text[2]).  raised stands for the
\* exception eval raises on a text that is no Python expression of known
\* names; otherwise val is the list eval returns.
eval(det) ==
    CASE det = FullPage -> [raised |-> FALSE, val |-> <<<<0, 0, 999, 999>>>>]
      [] det = TwoBoxes -> [raised |-> FALSE,
                            val |-> <<<<0, 0, 100, 100>>, <<200, 200, 300, 300>>>>]
      [] det = NotNumeric -> [raised |-> TRUE, val |-> <<>>]
      [] det = ThreeNumbers -> [raised |-> FALSE, val |-> <<<<1, 2, 3>>>>]
      [] det = BoxThenPair -> [raised |-> FALSE, val |-> <<<<0, 0, 100, 100>>, <<5, 6>>>>]
      [] det = ZeroArea -> [raised |-> FALSE, val |-> <<<<500, 500, 500, 500>>>>]
      [] OTHER -> [raised |-> FALSE,
                   val |-> <<Box(CHOOSE q \in 1..(MaxRefs + 1) : det = CoordText(q))>>]

\* The text the engine generates for page p: its tags in text order, the body
\* text, and the sentinel when the generation ended normally.  A generation
\* that did not end normally is taken without tags: it is dropped whole under
\* SKIP_REPEAT and handled like any other page without it.
PageSpecs ==
    {s \in [eos : BOOLEAN, refs : UNION {[1..n -> Labels] : n \in 0..MaxRefs}] :
        ~s.eos => s.refs = <<>>}
Text(p, spec) ==
    [q \in 1..Len(spec.refs) |-> Tag(spec.refs[q], CoordText(q))]
    \o <<Body(p)>> \o (IF spec.eos THEN <<EOS>> ELSE <<>>)

\* The page texts of SpecPage: up to two tags with any of the coordinate
\* texts, each followed by a run of newlines, then at most one LaTeX escape,
\* the body text and the sentinel.
NL == [kind |-> "text", a |-> "\n", b |-> ""]
Coloneqq == [kind |-> "text", a |-> "\\coloneqq", b |-> ""]
Eqqcolon == [kind |-> "text", a |-> "\\eqqcolon", b |-> ""]
ColonEq == [kind |-> "text", a |-> ":=", b |-> ""]
EqColon == [kind |-> "text", a |-> "=:", b |-> ""]
Newlines(n) == [j \in 1..n |-> NL]
PageTags ==
    {<<>>} \cup {<<Tag(l, c)>> : l \in Labels, c \in PageCoordTexts}
    \cup {<<Tag(NestedImage, FullPage)>>}
PageTexts(p) ==
    {t1 \o Newlines(n1) \o t2 \o Newlines(n2) \o esc \o <<Body(p)>> \o eos :
        t1 \in PageTags, t2 \in PageTags, n1 \in 0..MaxBlank, n2 \in 0..MaxBlank,
        esc \in {<<>>, <<Coloneqq>>, <<Eqqcolon>>}, eos \in {<<>>, <<EOS>>}}

\* str.replace(old, new) and str.replace(old, '') for a single token old.
Replace(content, old, new) ==
    [j \in DOMAIN content |-> IF content[j] = old THEN new ELSE content[j]]
Remove(content, old) == SelectSeq(content, LAMBDA t : t # old)

\* str.replace(old, new) for token sequences: the occurrences of old are
\* replaced from left to right, without overlap.
RECURSIVE ReplaceSub(_, _, _)
ReplaceSub(content, old, new) ==
    IF Len(content) < Len(old) THEN content
    ELSE IF SubSeq(content, 1, Len(old)) = old
         THEN new \o ReplaceSub(SubSeq(content, Len(old) + 1, Len(content)), old, new)
         ELSE <<Head(content)>> \o ReplaceSub(Tail(content), old, new)

\* Variant: only tags whose coordinate text decodes are matched.
re_match_Decoded(text) ==
    SelectSeq(text, LAMBDA t : t.kind = "tag" /\ t.b \notin {NotNumeric, ThreeNumbers,
                                                             BoxThenPair})

\* re_match: all tag matches in text order, and the two partitions.  A match
\* goes to the image partition when '<|ref|>image<|/ref|>' occurs in its full
\* text, which is so for the label image and for the label of NestedImage.
IsTag(t) == t.kind = "tag"
IsImageMatch(t) == t.a \in {"image", NestedImage}
re_match(text) == SelectSeq(text, IsTag)
matches_images(text) == SelectSeq(re_match(text), IsImageMatch)
mathes_other(text) == SelectSeq(re_match(text), LAMBDA t : ~IsImageMatch(t))

\* Variant: the skip policy is ignored.
KeepPage_Always(content) == TRUE

\* The page is kept unless the sentinel is missing and SKIP_REPEAT is set.
KeepPage(content) == EOS \in Range(content) \/ ~SKIP_REPEAT

\* Variant: the normalized range is taken to end at 99.
ToPixel_Percent(n, d) == (n * d) \div 99

\* Variant: int(round(n / 999 * dimension)).
ToPixel_Round(n, d) == (2 * n * d + Scale) \div (2 * Scale)

\* int(n / 999 * dimension) where the double product is not just below an
\* integer: the quotient, truncated.
ToPixel(n, d) == (n * d) \div Scale

\* n / 999 * dimension is computed in double precision.  When n * dimension
\* is a positive multiple of 999 and n / 999 is not exact, the product can
\* fall just below the integer quotient, and int() then yields one less:
\* int(63 / 999 * 111) = 6, int(63 / 999 * 555) = 35.
Inexact(n, d) == n * d > 0 /\ n % Scale # 0 /\ (n * d) % Scale = 0
Pixels(n, d) ==
    IF Inexact(n, d) THEN {ToPixel(n, d) - 1, ToPixel(n, d)} ELSE {ToPixel(n, d)}

\* The four assignments x1, y1, x2, y2 = int(.. / 999 * image_width), ..
Rect(points) ==
    <<ToPixel(points[1], ImageWidth), ToPixel(points[2], ImageHeight),
      ToPixel(points[3], ImageWidth), ToPixel(points[4], ImageHeight)>>

\* cropped.save writes the file unless the crop is empty, in which case it
\* raises and the except branch of the inner try prints a warning.
CropSaves(rect) == rect[3] > rect[1] /\ rect[4] > rect[2]

\* The tuples of ref the loop over points_list handles: none when eval
\* raised, otherwise those before the first one that does not unpack into
\* x1, y1, x2, y2 (the ValueError ends the handling of ref).
Handled(ref) ==
    LET r == eval(ref.b)
        bad == {j \in DOMAIN r.val : Len(r.val[j]) # 4}
    IN  IF r.raised THEN <<>>
        ELSE IF bad = {} THEN r.val
        ELSE SubSeq(r.val, 1, (CHOOSE j \in bad : \A m \in bad : j <= m) - 1)

\* label_type == 'image' (images_output_path is always given).
IsCropped(ref) == ref.a = "image"

\* process_image_with_refs: the crops saved for refs, img_idx starting at
\* img_idx_offset and incremented after every tuple of an image region.
RECURSIVE SavedCrops(_, _, _)
SavedCrops(refs, img_idx, p) ==
    IF refs = <<>> THEN <<>>
    ELSE LET ref == Head(refs)
             pts == Handled(ref)
             all == [j \in 1..Len(pts) |->
                        [name |-> CropPath(img_idx + j - 1), idx |-> img_idx + j - 1,
                         page |-> p, tag |-> ref, rect |-> Rect(pts[j])]]
         IN  IF IsCropped(ref)
             THEN SelectSeq(all, LAMBDA c : CropSaves(c.rect))
                  \o SavedCrops(Tail(refs), img_idx + Len(pts), p)
             ELSE SavedCrops(Tail(refs), img_idx, p)

\* process_image_with_refs: the boxes drawn for refs, each with the outline
\* width and the position of its label.
RECURSIVE DrawnBoxes(_, _)
DrawnBoxes(refs, p) ==
    IF refs = <<>> THEN <<>>
    ELSE LET ref == Head(refs)
             pts == Handled(ref)
         IN  [j \in 1..Len(pts) |->
                 [page |-> p, tag |-> ref, rect |-> Rect(pts[j]),
                  width |-> IF ref.a = "title" THEN 4 ELSE 2,
                  text_y |-> IF Rect(pts[j])[2] - 15 > 0 THEN Rect(pts[j])[2] - 15 ELSE 0]]
             \o DrawnBoxes(Tail(refs), p)

\* cropped.save for each crop in turn: a later save to the same name overwrites.
RECURSIVE SaveAll(_, _)
SaveAll(f, crops) ==
    IF crops = <<>> THEN f
    ELSE SaveAll((Head(crops).name :> <<Head(crops).tag, Body(Head(crops).page)>>) @@ f,
                 Tail(crops))

\* The image links of a page: the idx-th image match becomes images/<jdx>_<idx>.jpg.
PageLinks(ms, j, p) ==
    [n \in 1..Len(ms) |-> [name |-> LinkPath(j, n - 1), page |-> p, tag |-> ms[n]]]

\* content.replace(a_match_image, f'![](images/{jdx}_{idx}.jpg)\n') for
\* each image match in turn.
RECURSIVE ReplaceImages(_, _)
ReplaceImages(content, links) ==
    IF links = <<>> THEN content
    ELSE ReplaceImages(ReplaceSub(content, <<Head(links).tag>>,
                                  <<Link(Head(links).name), NL>>),
                       Tail(links))

\* Variant: the two escapes are replaced by the empty string.
Normalize_DropsEscapes(content) ==
    ReplaceSub(ReplaceSub(Remove(Remove(content, Coloneqq), Eqqcolon),
                          Newlines(4), Newlines(2)),
               Newlines(3), Newlines(2))

\* .replace('\\coloneqq', ':=').replace('\\eqqcolon', '=:')
\* .replace('\n\n\n\n', '\n\n').replace('\n\n\n', '\n\n')
Normalize(content) ==
    ReplaceSub(ReplaceSub(Replace(Replace(content, Coloneqq, ColonEq), Eqqcolon, EqColon),
                          Newlines(4), Newlines(2)),
               Newlines(3), Newlines(2))

\* The loop over mathes_other: each match is removed and the result is
\* normalised, once per match.
RECURSIVE RemoveOthers(_, _)
RemoveOthers(content, ms) ==
    IF ms = <<>> THEN content
    ELSE RemoveOthers(Normalize(Remove(content, Head(ms))), Tail(ms))

\* The three result dictionaries of process_single_pdf.
SkippedResult(d) ==
    [status |-> "skipped", pdf_name |-> pdf_name(d), reason |-> "already_processed"]
SuccessResult(d, total, processed) ==
    [status |-> "success", pdf_name |-> pdf_name(d), total_pages |-> total,
     processed_pages |-> processed, output_path |-> pdf_name(d)]
\* Variant: the except branch reports the document as skipped.
FailedResult_Skipped(d, e) ==
    [status |-> "skipped", pdf_name |-> pdf_name(d), reason |-> e]

FailedResult(d, e) ==
    [status |-> "failed", pdf_name |-> pdf_name(d), error |-> e]

\* Variant: the check looks at the output directory instead of <name>.mmd.
AlreadyProcessed_Directory(d) == dirs[d] >= 1

\* Variant: the check looks for a file name that is never written.
AlreadyProcessed_WrongName(d) == (pdf_name(d) \o ".md") \in DOMAIN files[d]

\* os.path.exists(mmd_path)
AlreadyProcessed(d) == mmd_path(d) \in DOMAIN files[d]

----------------------------------------------------------------------------
NoLocals ==
    /\ images = 0 /\ batch_inputs = <<>> /\ outputs_list = <<>> /\ k = 0
    /\ contents_det = <<>> /\ contents = <<>> /\ draw_images = <<>>
    /\ jdx = 0 /\ processed_pages = 0 /\ saved = <<>> /\ linked = <<>>
    /\ boxes = <<>> /\ futures = <<>> /\ finished = <<>>

\* Nothing is printed before the loop is through.
NoSummary ==
    [success_count |-> 0, failed_count |-> 0, skipped_count |-> 0, total_pages |-> 0,
     processed_pages |-> 0, throughput_pages |-> 0]

Init ==
    /\ pc = "start" /\ pdf_files = 0 /\ summary = NoSummary
    /\ i = 1 /\ results = <<>>
    /\ \E pr \in [Docs -> Priors] :
          /\ files = [d \in Docs |-> PriorFiles(d, pr[d])]
          /\ dirs = [d \in Docs |-> PriorDirs(pr[d])]
    /\ files0 = files
    /\ SKIP_REPEAT \in BOOLEAN
    /\ NoLocals
    /\ calls = [d \in Docs |-> [rasterize |-> 0, preprocess |-> 0, generate |-> 0]]
    /\ existed = {}
    /\ raised = [d \in Docs |-> ""]
    /\ coordinate = 0 /\ dimension = 0 /\ pixel = 0
    /\ NoFixer

\* Variant: the loop is left at the first failed document.
AfterReturn_StopOnFailure(result) == IF result.status = "failed" THEN "done" ELSE "main"

\* The for loop of __main__ takes the next file whatever the result was.
AfterReturn(result) == "main"

\* The return of process_single_pdf and results.append(result) in __main__.
Return(result) ==
    /\ results' = Append(results, result)
    /\ i' = i + 1
    /\ pc' = AfterReturn(result)
    /\ images' = 0 /\ batch_inputs' = <<>> /\ outputs_list' = <<>> /\ k' = 0
    /\ contents_det' = <<>> /\ contents' = <<>> /\ draw_images' = <<>>
    /\ jdx' = 0 /\ processed_pages' = 0 /\ saved' = <<>> /\ linked' = <<>>
    /\ boxes' = <<>> /\ futures' = <<>> /\ finished' = <<>>

\* Variant: the loop is entered whatever glob found.
Discover_NoCheck ==
    /\ pc = "start"
    /\ \E n \in 0..NumDocs : pdf_files' = n
    /\ pc' = "main"
    /\ UNCHANGED <<mapping, fixer, summary, i, results, files, dirs, files0, SKIP_REPEAT, locals,
                   calls, existed, raised>>

\* pdf_files = glob.glob(INPUT_PATH/*.pdf), and exit(1) when the list is empty.
Discover ==
    /\ pc = "start"
    /\ \E n \in 0..NumDocs : pdf_files' = n
    /\ pc' = IF pdf_files' = 0 THEN "exit(1)" ELSE "main"
    /\ UNCHANGED <<mapping, fixer, summary, i, results, files, dirs, files0, SKIP_REPEAT, locals,
                   calls, existed, raised>>

\* __main__ calls process_single_pdf(pdf_files[i]): both os.makedirs succeed.
Makedirs ==
    /\ pc = "main" /\ i <= pdf_files
    /\ dirs' = [dirs EXCEPT ![i] = 2]
    /\ existed' = IF mmd_path(i) \in DOMAIN files[i] THEN existed \cup {i} ELSE existed
    /\ pc' = "check"
    /\ UNCHANGED <<mapping, fixer, pdf_files, summary, i, results, files, files0, SKIP_REPEAT, locals, calls, raised>>

\* One of the two os.makedirs has to create its directory and raises; the
\* call is outside the try block, so the exception leaves __main__.
MakedirsRaise ==
    /\ pc = "main" /\ i <= pdf_files
    /\ dirs[i] < 2
    /\ \E made \in dirs[i]..1 : dirs' = [dirs EXCEPT ![i] = made]
    /\ existed' = IF mmd_path(i) \in DOMAIN files[i] THEN existed \cup {i} ELSE existed
    /\ pc' = "crashed"
    /\ UNCHANGED <<mapping, fixer, pdf_files, summary, i, results, files, files0, SKIP_REPEAT, locals, calls, raised>>

\* The resumability check finds <name>.mmd.
CheckSkip ==
    /\ pc = "check"
    /\ AlreadyProcessed(i)
    /\ Return(SkippedResult(i))
    /\ UNCHANGED <<mapping, fixer, pdf_files, summary, files, dirs, files0, SKIP_REPEAT, calls, existed, raised>>

CheckProceed ==
    /\ pc = "check"
    /\ ~AlreadyProcessed(i)
    /\ pc' = "rasterize"
    /\ UNCHANGED <<mapping, fixer, pdf_files, summary, i, results, files, dirs, files0, SKIP_REPEAT, locals, calls, existed, raised>>

\* images = pdf_to_images_high_quality(pdf_path)
Rasterize ==
    /\ pc = "rasterize"
    /\ \E n \in 1..MaxPages : images' = n
    /\ calls' = [calls EXCEPT ![i].rasterize = @ + 1]
    /\ pc' = "preprocess"
    /\ UNCHANGED <<mapping, fixer, pdf_files, summary, i, results, files, dirs, files0, SKIP_REPEAT, batch_inputs,
                   outputs_list, k, contents_det, contents, draw_images, jdx,
                   processed_pages, saved, linked, boxes, futures, finished,
                   existed, raised>>

\* executor.map(process_single_image, images) submits one task per bitmap,
\* in the order of images.
Submit ==
    /\ pc = "preprocess"
    /\ futures' = [p \in 1..images |-> [state |-> "queued", request |-> 0]]
    /\ finished' = <<>>
    /\ calls' = [calls EXCEPT ![i].preprocess = @ + 1]
    /\ pc' = "map"
    /\ UNCHANGED <<mapping, fixer, pdf_files, summary, i, results, files, dirs, files0, SKIP_REPEAT, images,
                   batch_inputs, outputs_list, k, contents_det, contents, draw_images,
                   jdx, processed_pages, saved, linked, boxes, existed, raised>>

\* An idle worker thread takes the oldest queued task.
WorkerStart ==
    /\ pc = "map"
    /\ Cardinality({p \in DOMAIN futures : futures[p].state = "running"}) < NUM_WORKERS
    /\ \E p \in DOMAIN futures :
          /\ futures[p].state = "queued"
          /\ \A q \in 1..(p - 1) : futures[q].state # "queued"
          /\ futures' = [futures EXCEPT ![p].state = "running"]
    /\ UNCHANGED <<mapping, fixer, pdf_files, summary, pc, i, results, files, dirs, files0, SKIP_REPEAT, images,
                   batch_inputs, outputs_list, k, contents_det, contents, draw_images,
                   jdx, processed_pages, saved, linked, boxes, finished, calls,
                   existed, raised>>

\* A worker thread returns from process_single_image(images[p]): the request
\* it built from bitmap p becomes the result of the task's future.
WorkerFinish ==
    /\ pc = "map"
    /\ \E p \in DOMAIN futures :
          /\ futures[p].state = "running"
          /\ futures' = [futures EXCEPT ![p] = [state |-> "done", request |-> p]]
          /\ finished' = Append(finished, p)
    /\ UNCHANGED <<mapping, fixer, pdf_files, summary, pc, i, results, files, dirs, files0, SKIP_REPEAT, images,
                   batch_inputs, outputs_list, k, contents_det, contents, draw_images,
                   jdx, processed_pages, saved, linked, boxes, calls, existed, raised>>

\* Variant: the results are collected in the order the tasks completed.
Gathered_AsCompleted == [j \in DOMAIN finished |-> futures[finished[j]].request]

\* list(executor.map(...)): the results of the futures in the order of submission.
Gathered == [p \in DOMAIN futures |-> futures[p].request]

\* Variant: the controller goes on as soon as one task is done.
Preprocess_FirstDone ==
    /\ pc = "map"
    /\ \E p \in DOMAIN futures : futures[p].state = "done"
    /\ batch_inputs' = Gathered
    /\ futures' = <<>>
    /\ pc' = "generate"
    /\ UNCHANGED <<mapping, fixer, pdf_files, summary, i, results, files, dirs, files0, SKIP_REPEAT, images,
                   outputs_list, k, contents_det, contents, draw_images, jdx,
                   processed_pages, saved, linked, boxes, finished, calls, existed,
                   raised>>

\* batch_inputs = list(tqdm(executor.map(process_single_image, images))):
\* the list is complete when every task is done, and the with block shuts
\* the executor down.
Preprocess ==
    /\ pc = "map"
    /\ \A p \in DOMAIN futures : futures[p].state = "done"
    /\ batch_inputs' = Gathered
    /\ futures' = <<>>
    /\ pc' = "generate"
    /\ UNCHANGED <<mapping, fixer, pdf_files, summary, i, results, files, dirs, files0, SKIP_REPEAT, images,
                   outputs_list, k, contents_det, contents, draw_images, jdx,
                   processed_pages, saved, linked, boxes, finished, calls, existed,
                   raised>>

\* outputs_list = llm.generate(batch_inputs, ...), then the initialisation of
\* the post-processing loop.
Generate ==
    /\ pc = "generate"
    /\ \E gen \in [1..images -> PageSpecs] :
          outputs_list' = [j \in 1..Len(batch_inputs) |->
                              Text(batch_inputs[j], gen[batch_inputs[j]])]
    /\ calls' = [calls EXCEPT ![i].generate = @ + 1]
    /\ contents_det' = <<>> /\ contents' = <<>> /\ draw_images' = <<>>
    /\ jdx' = 0 /\ processed_pages' = 0
    /\ k' = 1
    /\ finished' = <<>>
    /\ pc' = "post"
    /\ UNCHANGED <<mapping, fixer, pdf_files, summary, i, results, files, dirs, files0, SKIP_REPEAT, images,
                   batch_inputs, saved, linked, boxes, futures, existed, raised>>

\* Variant: a dropped page still goes into the tagged transcript and the
\* annotated PDF.
PostPageSkip_KeepsTagged ==
    /\ pc = "post" /\ k <= images
    /\ ~KeepPage(outputs_list[k])
    /\ contents_det' = contents_det \o outputs_list[k] \o <<page_num>>
    /\ draw_images' = Append(draw_images, <<Body(k)>>)
    /\ k' = k + 1
    /\ UNCHANGED <<mapping, fixer, pdf_files, summary, pc, i, results, files, dirs, files0, SKIP_REPEAT, images,
                   batch_inputs, outputs_list, contents, jdx, processed_pages, saved,
                   linked, boxes, futures, finished, calls, existed, raised>>

\* One iteration of the loop over zip(outputs_list, images) on a page that
\* SKIP_REPEAT drops.
PostPageSkip ==
    /\ pc = "post" /\ k <= images
    /\ ~KeepPage(outputs_list[k])
    /\ k' = k + 1
    /\ UNCHANGED <<mapping, fixer, pdf_files, summary, pc, i, results, files, dirs, files0, SKIP_REPEAT, images,
                   batch_inputs, outputs_list, contents_det, contents, draw_images,
                   jdx, processed_pages, saved, linked, boxes, futures, finished,
                   calls, existed, raised>>

\* One iteration of the loop on a page that is kept: the text is appended to
\* the tagged transcript, process_image_with_refs draws and crops on bitmap k,
\* and the clean text is appended to the clean transcript.
PostPage ==
    /\ pc = "post" /\ k <= images
    /\ KeepPage(outputs_list[k])
    /\ LET content == Remove(outputs_list[k], EOS)
           crops == SavedCrops(re_match(content), jdx, k)
           links == PageLinks(matches_images(content), jdx, k)
           clean == RemoveOthers(ReplaceImages(content, links), mathes_other(content))
       IN  /\ processed_pages' = processed_pages + 1
           /\ contents_det' = contents_det \o content \o <<page_num>>
           /\ files' = [files EXCEPT ![i] = SaveAll(@, crops)]
           /\ saved' = saved \o crops
           /\ boxes' = boxes \o DrawnBoxes(re_match(content), k)
           /\ draw_images' = Append(draw_images, <<Body(k)>>)
           /\ linked' = linked \o links
           /\ contents' = contents \o clean \o <<page_num>>
           /\ jdx' = jdx + 1
    /\ k' = k + 1
    /\ UNCHANGED <<mapping, fixer, pdf_files, summary, pc, i, results, dirs, files0, SKIP_REPEAT, images,
                   batch_inputs, outputs_list, futures, finished, calls, existed,
                   raised>>

\* with open(mmd_det_path, 'w') as f: f.write(contents_det)
WriteDet ==
    /\ pc = "post" /\ k > images
    /\ files' = [files EXCEPT ![i] = (mmd_det_path(i) :> contents_det) @@ @]
    /\ pc' = "write_mmd"
    /\ UNCHANGED <<mapping, fixer, pdf_files, summary, i, results, dirs, files0, SKIP_REPEAT, locals, calls, existed, raised>>

\* with open(mmd_path, 'w') as f: f.write(contents)
WriteMmd ==
    /\ pc = "write_mmd"
    /\ files' = [files EXCEPT ![i] = (mmd_path(i) :> contents) @@ @]
    /\ pc' = "write_pdf"
    /\ UNCHANGED <<mapping, fixer, pdf_files, summary, i, results, dirs, files0, SKIP_REPEAT, locals, calls, existed, raised>>

\* pil_to_pdf_img2pdf(draw_images, pdf_out_path): nothing is written for an
\* empty list, and a failure of img2pdf.convert or of the write is caught inside.
WritePdf ==
    /\ pc = "write_pdf"
    /\ \E ok \in BOOLEAN :
          files' = IF draw_images # <<>> /\ ok
                   THEN [files EXCEPT ![i] = (pdf_out_path(i) :> draw_images) @@ @]
                   ELSE files
    /\ pc' = "stats"
    /\ UNCHANGED <<mapping, fixer, pdf_files, summary, i, results, dirs, files0, SKIP_REPEAT, locals, calls, existed, raised>>

\* Variant: no per-page time is printed, the document succeeds whatever
\* the number of pages kept.
Finish_NoStatistics ==
    /\ pc = "stats"
    /\ UNCHANGED raised
    /\ Return(SuccessResult(i, images, processed_pages))
    /\ UNCHANGED <<mapping, fixer, pdf_files, summary, files, dirs, files0, SKIP_REPEAT, calls, existed>>

\* The statistics printed after the writes divide by processed_pages.
Finish ==
    /\ pc = "stats"
    /\ IF processed_pages = 0
       THEN /\ raised' = [raised EXCEPT ![i] = "division by zero"]
            /\ Return(FailedResult(i, "division by zero"))
       ELSE /\ UNCHANGED raised
            /\ Return(SuccessResult(i, images, processed_pages))
    /\ UNCHANGED <<mapping, fixer, pdf_files, summary, files, dirs, files0, SKIP_REPEAT, calls, existed>>

TrySteps == {"rasterize", "preprocess", "map", "generate", "post", "write_mmd",
             "write_pdf"}
ErrorAt(step) == "error: " \o step

\* Variant: the except branch saves the tagged transcript built so far.
Raise_SavesTranscript ==
    /\ pc \in TrySteps
    /\ calls' = [calls EXCEPT ![i] =
                    CASE pc = "rasterize" -> [@ EXCEPT !.rasterize = @ + 1]
                      [] pc = "preprocess" -> [@ EXCEPT !.preprocess = @ + 1]
                      [] pc = "generate" -> [@ EXCEPT !.generate = @ + 1]
                      [] OTHER -> @]
    /\ raised' = [raised EXCEPT ![i] = ErrorAt(pc)]
    /\ files' = [files EXCEPT ![i] = (mmd_det_path(i) :> contents_det) @@ @]
    /\ Return(FailedResult(i, ErrorAt(pc)))
    /\ UNCHANGED <<mapping, fixer, pdf_files, summary, dirs, files0, SKIP_REPEAT, existed>>

\* Any statement of the try block may raise; except Exception returns the
\* failed result with str(e).
Raise ==
    /\ pc \in TrySteps
    /\ calls' = [calls EXCEPT ![i] =
                    CASE pc = "rasterize" -> [@ EXCEPT !.rasterize = @ + 1]
                      [] pc = "preprocess" -> [@ EXCEPT !.preprocess = @ + 1]
                      [] pc = "generate" -> [@ EXCEPT !.generate = @ + 1]
                      [] OTHER -> @]
    /\ raised' = [raised EXCEPT ![i] = ErrorAt(pc)]
    /\ Return(FailedResult(i, ErrorAt(pc)))
    /\ UNCHANGED <<mapping, fixer, pdf_files, summary, files, dirs, files0, SKIP_REPEAT, existed>>

\* len([r for r in results if r['status'] == status])
CountStatus(rs, status) == Len(SelectSeq(rs, LAMBDA r : r.status = status))

\* Variant: both page sums read total_pages.
PagesOf_Total(r, field) == IF "total_pages" \in DOMAIN r THEN r.total_pages ELSE 0

\* r.get(field, 0)
PagesOf(r, field) == IF field \in DOMAIN r THEN r[field] ELSE 0

\* sum([r.get(field, 0) for r in results if r['status'] == 'success'])
RECURSIVE SumPages(_, _)
SumPages(rs, field) ==
    IF rs = <<>> THEN 0
    ELSE (IF Head(rs).status = "success" THEN PagesOf(Head(rs), field) ELSE 0)
         + SumPages(Tail(rs), field)

\* The loop over pdf_files is exhausted: the counts and page sums are taken
\* and printed; with a success the two time statistics divide by the sum of
\* processed_pages, and a ZeroDivisionError there ends the run.
Summary ==
    /\ pc = "main" /\ i > pdf_files
    /\ LET success_count == CountStatus(results, "success")
           processed == SumPages(results, "processed_pages")
       IN  /\ summary' = [success_count |-> success_count,
                          failed_count |-> CountStatus(results, "failed"),
                          skipped_count |-> CountStatus(results, "skipped"),
                          total_pages |-> SumPages(results, "total_pages"),
                          processed_pages |-> processed,
                          throughput_pages |-> IF success_count > 0 THEN processed ELSE 0]
           /\ pc' = IF success_count > 0 /\ processed = 0 THEN "crashed" ELSE "done"
    /\ UNCHANGED <<mapping, fixer, pdf_files, i, results, files, dirs, files0, SKIP_REPEAT, locals,
                   calls, existed, raised>>

Next ==
    \/ Discover
    \/ Makedirs \/ MakedirsRaise \/ CheckSkip \/ CheckProceed
    \/ Rasterize \/ Submit \/ WorkerStart \/ WorkerFinish \/ Preprocess \/ Generate
    \/ PostPageSkip \/ PostPage
    \/ WriteDet \/ WriteMmd \/ WritePdf \/ Finish
    \/ Raise \/ Summary

Spec == Init /\ [][Next]_vars

----------------------------------------------------------------------------
\* The coordinate mapping of process_image_with_refs on its own: one
\* normalized coordinate of a tuple and one dimension of the bitmap.
InitPixel ==
    /\ pc = "points" /\ pdf_files = NumDocs /\ summary = NoSummary
    /\ i = 1 /\ results = <<>>
    /\ files = [d \in Docs |-> PriorFiles(d, "fresh")]
    /\ dirs = [d \in Docs |-> 2]
    /\ files0 = files
    /\ SKIP_REPEAT = FALSE
    /\ NoLocals
    /\ calls = [d \in Docs |-> [rasterize |-> 0, preprocess |-> 0, generate |-> 0]]
    /\ existed = {}
    /\ raised = [d \in Docs |-> ""]
    /\ coordinate \in 0..Scale
    /\ dimension \in 0..MaxDim
    /\ pixel = 0
    /\ NoFixer

\* x1 = int(x1 / 999 * image_width), and likewise y1, x2, y2.
MapCoordinate ==
    /\ pc = "points"
    /\ pixel' \in Pixels(coordinate, dimension)
    /\ pc' = "mapped"
    /\ UNCHANGED <<fixer, pdf_files, summary, i, results, files, dirs, files0,
                   SKIP_REPEAT, locals, calls, existed, raised, coordinate, dimension>>

NextPixel == MapCoordinate

SpecPixel == InitPixel /\ [][NextPixel]_vars

----------------------------------------------------------------------------
\* The page loop on its own: the batch has skipped every document but the
\* last, whose page bitmaps have been rasterized and pre-processed, and
\* llm.generate has returned any of the page texts of PageTexts for its last
\* page.  The document has one page, or two pages of which the first, a page
\* of plain text, has been through the loop already.
PlainPage(p) == <<Body(p), EOS>>
InitPage ==
    /\ pc = "post" /\ pdf_files = NumDocs /\ summary = NoSummary
    /\ i = NumDocs
    /\ results = [d \in 1..(NumDocs - 1) |-> SkippedResult(d)]
    /\ files = [d \in Docs |-> PriorFiles(d, IF d < NumDocs THEN "done" ELSE "fresh")]
    /\ dirs = [d \in Docs |-> 2]
    /\ files0 = files
    /\ SKIP_REPEAT \in BOOLEAN
    /\ images \in 1..2
    /\ batch_inputs = [p \in 1..images |-> p]
    /\ k = images
    /\ outputs_list \in {[p \in 1..(images - 1) |-> PlainPage(p)] \o <<text>> :
                            text \in PageTexts(images)}
    /\ contents_det = IF k = 1 THEN <<>> ELSE <<Body(1), page_num>>
    /\ contents = contents_det
    /\ draw_images = [p \in 1..(k - 1) |-> <<Body(p)>>]
    /\ jdx = k - 1 /\ processed_pages = k - 1
    /\ saved = <<>> /\ linked = <<>>
    /\ boxes = <<>> /\ futures = <<>> /\ finished = <<>>
    /\ calls = [d \in Docs |-> IF d < NumDocs
                                THEN [rasterize |-> 0, preprocess |-> 0, generate |-> 0]
                                ELSE [rasterize |-> 1, preprocess |-> 1, generate |-> 1]]
    /\ existed = 1..(NumDocs - 1)
    /\ raised = [d \in Docs |-> ""]
    /\ coordinate = 0 /\ dimension = 0 /\ pixel = 0
    /\ NoFixer

NextPage ==
    \/ PostPageSkip \/ PostPage
    \/ WriteDet \/ WriteMmd \/ WritePdf \/ Finish
    \/ Raise \/ Summary

SpecPage == InitPage /\ [][NextPage]_vars

----------------------------------------------------------------------------
\* auto_fix_t4_compatibility.py: the files T4CompatibilityFixer works on.

files_to_fix == <<"run_dpsk_ocr_image.py", "run_dpsk_ocr_pdf.py",
                  "run_dpsk_ocr_eval_batch.py", "run_dpsk_ocr_pdf_batch.py",
                  "deepseek_ocr.py">>
shared_modules == <<"deepseek_ocr.py", "process/image_process.py">>
config_files == <<"config.py", "config_image.py", "config_pdf.py", "config_batch.py",
                  "config_pdf_batch.py">>
script_config_mapping ==
    [f \in {files_to_fix[n] : n \in 1..4} |->
        CASE f = "run_dpsk_ocr_image.py" -> "config_image"
          [] f = "run_dpsk_ocr_pdf.py" -> "config_pdf"
          [] f = "run_dpsk_ocr_eval_batch.py" -> "config_batch"
          [] f = "run_dpsk_ocr_pdf_batch.py" -> "config_pdf_batch"]
created_directories == {"input_image", "output_image", "input_pdf", "output_pdf",
                        "input_batch", "output_batch", "input_pdf_batch",
                        "output_pdf_batch", "input", "output"}
BackupShared(module) == module \o ".backup_shared"
FixerFiles ==
    Range(files_to_fix) \cup Range(shared_modules) \cup Range(config_files)
    \cup {BackupShared(m) : m \in Range(shared_modules)}

\* The content of a file is the set of the pieces of text in it that the
\* fixer looks for or writes; a file that does not exist has NoFile.
NoFile == {"<no such file>"}

\* A piece is written as the text itself, <nl> standing for a newline and
\* ... for text the fixer does not look at: pieces of the engine arguments
\* and of deepseek_ocr.py (T4 fixes), import statements and the "# compat"
\* blocks the vLLM fixes put in their place.  What a fix searches a file
\* for is written as the condition of the code, e.g. "'block_size=256,' in
\* content" or "re.search(...)"; for an import statement and for the marker
\* comment of its replacement it is:
has_old(import) == "old: " \o import
has_marker(compat) == "marker: " \o compat

\* What each piece of text holds of these.
Holds(f) ==
    CASE f = "block_size=256," -> {"'block_size=256,' in content"}
      [] f = "block_size=16,  # T4 GPU" -> {"'block_size=16,' in content"}
      [] f = "gpu_memory_utilization=0.75, <nl> )"
              -> {"re.search(gpu_memory_utilization=0.75, ws <nl> ws )"}
      [] f = "gpu_memory_utilization=0.75, <nl> dtype='half', <nl> )" -> {"dtype='half' in content"}
      [] f = "gpu_memory_utilization=0.9, <nl> )"
              -> {"re.search(gpu_memory_utilization=0.9,? ws <nl> ws )"}
      [] f = "gpu_memory_utilization=0.9, <nl> dtype='half', <nl> )" -> {"dtype='half' in content"}
      [] f = "disable_mm_preprocessor_cache=True <nl> )"
              -> {"'disable_mm_preprocessor_cache=True<nl>' in content"}
      [] f = "disable_mm_preprocessor_cache=True, <nl> )"
              -> {"re.search(disable_mm_preprocessor_cache=True, <nl> ws )"}
      [] f = "disable_mm_preprocessor_cache=True, <nl> dtype='half', <nl> )"
              -> {"dtype='half' in content"}
      [] f = "disable_mm_preprocessor_cache=True <nl> # end <nl> )"
              -> {"'disable_mm_preprocessor_cache=True<nl>' in content"}
      [] f = "disable_mm_preprocessor_cache=True, <nl> # end <nl> )" -> {}
      [] f = "# dtype='half' is needed on T4" -> {"dtype='half' in content"}
      [] f = "self.vision_model = build_clip_l() ... # self.sam_model = torch.compile"
              -> {"old_code in content"}
      [] f = "self.vision_model = build_clip_l() ... target_dtype = model_config.dtype ..."
              -> {"'target_dtype' in content"}
      [] f = "patches = images_crop[jdx][0].to(torch.bfloat16) <nl> image_ori ="
              -> {"re.search(patches = images_crop[jdx][0].to(torch.bfloat16) ...)"}
      [] f = "model_dtype = next(self.sam_model.parameters()).dtype <nl> patches = ... <nl> image_ori ="
              -> {"'model_dtype = next(self.sam_model.parameters()).dtype' in content"}
      [] f \in {"from vllm.model_executor import SamplingMetadata",
          "from vllm.model_executor.model_loader.utils import set_default_torch_dtype",
          "from vllm.model_executor.models.utils import (..., merge_multimodal_embeddings)",
              "from vllm.model_executor.models.registry import ModelRegistry",
                  "from vllm import AsyncLLMEngine, ... <nl> ... import ModelRegistry"}
            -> {has_old(f)}
      [] f = "# compat SamplingMetadata <nl> try: ... SamplingMetadata"
            -> {has_marker(f), has_old("from vllm.model_executor import SamplingMetadata")}
      [] f = "# compat set_default_torch_dtype <nl> try: ... set_default_torch_dtype"
              -> {has_marker(f),
                  has_old("from vllm.model_executor.model_loader.utils import set_default_torch_dtype")}
      [] f = "# compat merge_multimodal_embeddings <nl> try: ... merge_multimodal_embeddings"
              -> {has_marker(f)}
      [] f = "# compat ModelRegistry <nl> try: ... ModelRegistry"
              -> {has_marker(f),
                  has_old("from vllm.model_executor.models.registry import ModelRegistry")}
      [] f = "# compat vllm <nl> try: from vllm import AsyncLLMEngine, ... ModelRegistry"
              -> {has_marker(f), has_marker("# compat ModelRegistry <nl> try: ... ModelRegistry")}
      [] OTHER -> {}
Has(content, what) == \E f \in content : what \in Holds(f)

\* content.replace(old, new) and re.sub(pattern, replacement, content).
Substitute(content, old, new) == {IF f = old THEN new ELSE f : f \in content}

\* fixes if content != original_content (the file is written) else None.
Fixed(content, new_content, fixes) ==
    [content |-> new_content, fixes |-> IF new_content # content THEN fixes ELSE <<>>]
When(cond, fix) == IF cond THEN <<fix>> ELSE <<>>

\* fix_run_dpsk_ocr_image
fix_run_dpsk_ocr_image(content) ==
    LET fix1 == Has(content, "'block_size=256,' in content")
            /\ ~Has(content, "'block_size=16,' in content")
        c1 == IF fix1
                THEN Substitute(content, "block_size=256,", "block_size=16,  # T4 GPU") ELSE content
        fix2 == Has(c1, "re.search(gpu_memory_utilization=0.75, ws <nl> ws )")
                /\ ~Has(c1, "dtype='half' in content")
        c2 == IF fix2
                THEN Substitute(c1, "gpu_memory_utilization=0.75, <nl> )",
                    "gpu_memory_utilization=0.75, <nl> dtype='half', <nl> )")
                ELSE c1
    IN  Fixed(content, c2, When(fix1, "block_size: 256 -> 16")
                           \o When(fix2, "dtype='half' (AsyncEngineArgs)"))

\* fix_run_dpsk_ocr_pdf, which fix_run_dpsk_ocr_pdf_batch calls as well
fix_run_dpsk_ocr_pdf(content) ==
    LET fix1 == Has(content, "'block_size=256,' in content")
            /\ ~Has(content, "'block_size=16,' in content")
        c1 == IF fix1
                THEN Substitute(content, "block_size=256,", "block_size=16,  # T4 GPU") ELSE content
        fix2 == Has(c1, "'disable_mm_preprocessor_cache=True<nl>' in content")
        c2 == IF fix2
              THEN Substitute(Substitute(c1, "disable_mm_preprocessor_cache=True <nl> )",
                      "disable_mm_preprocessor_cache=True, <nl> )"),
                              "disable_mm_preprocessor_cache=True <nl> # end <nl> )",
                                      "disable_mm_preprocessor_cache=True, <nl> # end <nl> )")
              ELSE c1
        fix3 == Has(c2, "re.search(disable_mm_preprocessor_cache=True, <nl> ws )")
                /\ ~Has(c2, "dtype='half' in content")
        c3 == IF fix3
                THEN Substitute(c2, "disable_mm_preprocessor_cache=True, <nl> )",
                    "disable_mm_preprocessor_cache=True, <nl> dtype='half', <nl> )")
                ELSE c2
    IN  Fixed(content, c3, When(fix1, "block_size: 256 -> 16") \o When(fix2, "comma")
                           \o When(fix3, "dtype='half' (LLM)"))

\* fix_run_dpsk_ocr_eval_batch
fix_run_dpsk_ocr_eval_batch(content) ==
    LET fix1 == Has(content, "'block_size=256,' in content")
            /\ ~Has(content, "'block_size=16,' in content")
        c1 == IF fix1
                THEN Substitute(content, "block_size=256,", "block_size=16,  # T4 GPU") ELSE content
        fix2 == Has(c1, "re.search(gpu_memory_utilization=0.9,? ws <nl> ws )")
                /\ ~Has(c1, "dtype='half' in content")
        c2 == IF fix2
                THEN Substitute(c1, "gpu_memory_utilization=0.9, <nl> )",
                    "gpu_memory_utilization=0.9, <nl> dtype='half', <nl> )")
                ELSE c1
    IN  Fixed(content, c2, When(fix1, "block_size: 256 -> 16")
                           \o When(fix2, "dtype='half' (LLM)"))

\* fix_deepseek_ocr
fix_deepseek_ocr(content) ==
    LET fix1 == Has(content, "old_code in content") /\ ~Has(content, "'target_dtype' in content")
        c1 == IF fix1
                THEN Substitute(content, "self.vision_model = build_clip_l() ... # self.sam_model = torch.compile",
                    "self.vision_model = build_clip_l() ... target_dtype = model_config.dtype ...")
              ELSE content
        fix2 == Has(c1, "re.search(patches = images_crop[jdx][0].to(torch.bfloat16) ...)")
                /\ ~Has(c1, "'model_dtype = next(self.sam_model.parameters()).dtype' in content")
        c2 == IF fix2
                THEN Substitute(c1, "patches = images_crop[jdx][0].to(torch.bfloat16) <nl> image_ori =",
                    "model_dtype = next(self.sam_model.parameters()).dtype <nl> patches = ... <nl> image_ori =")
                ELSE c1
    IN  Fixed(content, c2, When(fix1, "vision encoder dtype")
                           \o When(fix2, "input dtype"))

\* old_import in content and marker not in content
Guarded(content, import, compat) ==
    Has(content, has_old(import)) /\ ~Has(content, has_marker(compat))

\* content.replace(old_import, new_import): every occurrence of the old
\* import becomes the compatible block, one inside such a block included.
ReplaceImport(content, import, compat) ==
    {IF f = import THEN compat
     ELSE IF has_old(import) \in Holds(f) THEN "nested: " \o f
     ELSE f : f \in content}

\* fix_vllm_imports_deepseek_ocr
fix_vllm_imports_deepseek_ocr(content) ==
    LET fix1 == Guarded(content, "from vllm.model_executor import SamplingMetadata",
            "# compat SamplingMetadata <nl> try: ... SamplingMetadata")
        c1 == IF fix1
                THEN ReplaceImport(content, "from vllm.model_executor import SamplingMetadata",
                    "# compat SamplingMetadata <nl> try: ... SamplingMetadata")
              ELSE content
        fix2 == Guarded(c1, "from vllm.model_executor.model_loader.utils import set_default_torch_dtype",
                "# compat set_default_torch_dtype <nl> try: ... set_default_torch_dtype")
        c2 == IF fix2
                THEN ReplaceImport(c1, "from vllm.model_executor.model_loader.utils import set_default_torch_dtype",
                    "# compat set_default_torch_dtype <nl> try: ... set_default_torch_dtype")
                ELSE c1
        fix3 == Guarded(c2, "from vllm.model_executor.models.utils import (..., merge_multimodal_embeddings)",
                "# compat merge_multimodal_embeddings <nl> try: ... merge_multimodal_embeddings")
        c3 == IF fix3
                THEN ReplaceImport(c2, "from vllm.model_executor.models.utils import (..., merge_multimodal_embeddings)",
                    "# compat merge_multimodal_embeddings <nl> try: ... merge_multimodal_embeddings")
              ELSE c2
    IN  Fixed(content, c3, When(fix1, "SamplingMetadata") \o When(fix2, "set_default_torch_dtype")
                           \o When(fix3, "merge_multimodal_embeddings"))

\* fix_vllm_imports_run_scripts
fix_vllm_imports_run_scripts(content) ==
    LET fix1 == Guarded(content, "from vllm.model_executor.models.registry import ModelRegistry",
            "# compat ModelRegistry <nl> try: ... ModelRegistry")
        c1 == IF fix1
                THEN ReplaceImport(content, "from vllm.model_executor.models.registry import ModelRegistry",
                    "# compat ModelRegistry <nl> try: ... ModelRegistry")
                ELSE content
    IN  Fixed(content, c1, When(fix1, "ModelRegistry"))

\* fix_vllm_imports_run_image
fix_vllm_imports_run_image(content) ==
    LET fix1 == Guarded(content, "from vllm import AsyncLLMEngine, ... <nl> ... import ModelRegistry",
            "# compat vllm <nl> try: from vllm import AsyncLLMEngine, ... ModelRegistry")
        c1 == IF fix1
                THEN ReplaceImport(content, "from vllm import AsyncLLMEngine, ... <nl> ... import ModelRegistry",
                    "# compat vllm <nl> try: from vllm import AsyncLLMEngine, ... ModelRegistry")
                ELSE content
    IN  Fixed(content, c1, When(fix1, "AsyncLLMEngine/AsyncEngineArgs/ModelRegistry"))

\* self.stats after reset_stats
NoStats ==
    [total_files |-> 0, fixed_files |-> 0, skipped_files |-> 0, failed_files |-> 0,
     fixes_applied |-> 0]

\* fix_t4_file(filename) on the files fs with the statistics st: the files
\* and statistics afterwards and the value returned.
fix_t4_file(fs, st, name) ==
    IF fs[name] = NoFile
    THEN [files |-> fs, stats |-> [st EXCEPT !.skipped_files = @ + 1], ret |-> "None"]
    ELSE LET r == CASE name = "run_dpsk_ocr_image.py" -> fix_run_dpsk_ocr_image(fs[name])
                    [] name = "run_dpsk_ocr_pdf.py" -> fix_run_dpsk_ocr_pdf(fs[name])
                    [] name = "run_dpsk_ocr_eval_batch.py"
                          -> fix_run_dpsk_ocr_eval_batch(fs[name])
                    [] name = "run_dpsk_ocr_pdf_batch.py" -> fix_run_dpsk_ocr_pdf(fs[name])
                    [] name = "deepseek_ocr.py" -> fix_deepseek_ocr(fs[name])
                    [] OTHER -> Fixed(fs[name], fs[name], <<>>)
         IN  IF r.fixes # <<>>
             THEN [files |-> [fs EXCEPT ![name] = r.content],
                   stats |-> [st EXCEPT !.fixed_files = @ + 1,
                                        !.fixes_applied = @ + Len(r.fixes)],
                   ret |-> "True"]
             ELSE [files |-> fs, stats |-> [st EXCEPT !.skipped_files = @ + 1],
                   ret |-> "False"]

\* fix_vllm_imports(filename), likewise; a file without a fix is reported
\* as skipped on the console only.
fix_vllm_imports(fs, st, name) ==
    IF fs[name] = NoFile
    THEN [files |-> fs, stats |-> st, ret |-> "None"]
    ELSE LET r == CASE name = "deepseek_ocr.py" -> fix_vllm_imports_deepseek_ocr(fs[name])
                    [] name = "run_dpsk_ocr_image.py" -> fix_vllm_imports_run_image(fs[name])
                    [] name \in {"run_dpsk_ocr_pdf.py", "run_dpsk_ocr_eval_batch.py",
                                 "run_dpsk_ocr_pdf_batch.py"}
                          -> fix_vllm_imports_run_scripts(fs[name])
                    [] OTHER -> Fixed(fs[name], fs[name], <<>>)
         IN  IF r.fixes # <<>>
             THEN [files |-> [fs EXCEPT ![name] = r.content],
                   stats |-> [st EXCEPT !.fixed_files = @ + 1,
                                        !.fixes_applied = @ + Len(r.fixes)],
                   ret |-> "True"]
             ELSE [files |-> fs, stats |-> st, ret |-> "False"]

----------------------------------------------------------------------------
\* A single fix applied again and again to one file.

\* The batch is no part of the fixer's runs.
NoBatch ==
    /\ pc = "off" /\ pdf_files = 0 /\ summary = NoSummary
    /\ i = 1 /\ results = <<>>
    /\ files = <<>> /\ dirs = <<>> /\ files0 = <<>>
    /\ SKIP_REPEAT = FALSE
    /\ NoLocals
    /\ calls = <<>> /\ existed = {} /\ raised = <<>>
    /\ coordinate = 0 /\ dimension = 0 /\ pixel = 0

\* There is no backup directory.
NoBackup == [exists |-> FALSE, files |-> [f \in FixerFiles |-> NoFile], markers |-> {}]

\* The pieces of text a file of that name may hold when a fix finds it.
Vocabulary(name) ==
    CASE name = "run_dpsk_ocr_image.py"
            -> {"block_size=256,", "block_size=16,  # T4 GPU",
                    "gpu_memory_utilization=0.75, <nl> )",
                        "gpu_memory_utilization=0.75, <nl> dtype='half', <nl> )",
                "from vllm import AsyncLLMEngine, ... <nl> ... import ModelRegistry",
                        "# compat vllm <nl> try: from vllm import AsyncLLMEngine, ... ModelRegistry"}
      [] name = "run_dpsk_ocr_eval_batch.py"
            -> {"block_size=256,", "block_size=16,  # T4 GPU",
                    "gpu_memory_utilization=0.9, <nl> )",
                        "gpu_memory_utilization=0.9, <nl> dtype='half', <nl> )",
                "from vllm.model_executor.models.registry import ModelRegistry",
                        "# compat ModelRegistry <nl> try: ... ModelRegistry"}
      [] name = "deepseek_ocr.py"
            -> {"self.vision_model = build_clip_l() ... # self.sam_model = torch.compile",
                "self.vision_model = build_clip_l() ... target_dtype = model_config.dtype ...",
                    "patches = images_crop[jdx][0].to(torch.bfloat16) <nl> image_ori =",
                        "model_dtype = next(self.sam_model.parameters()).dtype <nl> patches = ... <nl> image_ori =",
                "from vllm.model_executor import SamplingMetadata",
                    "from vllm.model_executor.model_loader.utils import set_default_torch_dtype",
                        "from vllm.model_executor.models.utils import (..., merge_multimodal_embeddings)"}
      [] OTHER
            -> {"block_size=256,", "block_size=16,  # T4 GPU",
                    "disable_mm_preprocessor_cache=True <nl> )",
                        "disable_mm_preprocessor_cache=True <nl> # end <nl> )",
                "disable_mm_preprocessor_cache=True, <nl> )", "# dtype='half' is needed on T4",
                        "from vllm.model_executor.models.registry import ModelRegistry",
                            "# compat ModelRegistry <nl> try: ... ModelRegistry"}

InitFix ==
    /\ NoBatch
    /\ fpc = "fix" /\ op = "none"
    /\ filename \in Range(files_to_fix)
    /\ \E content \in SUBSET Vocabulary(filename) :
          vllm_files = [f \in FixerFiles |-> IF f = filename THEN content ELSE NoFile]
    /\ directories = {} /\ backup = NoBackup /\ stats = NoStats
    /\ backed_up = FALSE /\ original = vllm_files /\ before = vllm_files /\ ops = 0
    /\ returned = "none" /\ modified_by = {} /\ applied = 0

\* self.fix_t4_file(filename)
FixT4File ==
    /\ fpc = "fix" /\ applied < MaxApplications
    /\ LET r == fix_t4_file(vllm_files, stats, filename)
       IN  /\ vllm_files' = r.files /\ stats' = r.stats /\ returned' = r.ret
           /\ modified_by' = IF r.files # vllm_files THEN modified_by \cup {"fix_t4_file"}
                             ELSE modified_by
    /\ op' = "fix_t4_file" /\ applied' = applied + 1
    /\ UNCHANGED <<batch, fpc, directories, backup, backed_up, original, before, ops,
                   filename>>

\* self.fix_vllm_imports(filename)
FixVllmImports ==
    /\ fpc = "fix" /\ applied < MaxApplications
    /\ LET r == fix_vllm_imports(vllm_files, stats, filename)
       IN  /\ vllm_files' = r.files /\ stats' = r.stats /\ returned' = r.ret
           /\ modified_by' = IF r.files # vllm_files
                             THEN modified_by \cup {"fix_vllm_imports"}
                             ELSE modified_by
    /\ op' = "fix_vllm_imports" /\ applied' = applied + 1
    /\ UNCHANGED <<batch, fpc, directories, backup, backed_up, original, before, ops,
                   filename>>

NextFix == FixT4File \/ FixVllmImports

SpecFix == InitFix /\ [][NextFix]_vars

----------------------------------------------------------------------------
\* The operations of the fixer's menu.

\* The import of its config module in a script or shared module.
ConfigImport(module) == "from " \o module \o " import "

\* The files of a project as the repository ships them.
Shipped(name) ==
    CASE name = "run_dpsk_ocr_image.py"
            -> {"from config import ", "import torch <nl>", "class Colors:",
                    "block_size=256,", "gpu_memory_utilization=0.75, <nl> )",
                "from vllm import AsyncLLMEngine, ... <nl> ... import ModelRegistry"}
      [] name = "run_dpsk_ocr_eval_batch.py"
            -> {"from config import ", "import torch <nl>", "class Colors:",
                    "block_size=256,", "gpu_memory_utilization=0.9, <nl> )",
                "from vllm.model_executor.models.registry import ModelRegistry",
                        "DeepseekOCRProcessor().tokenize_with_images("}
      [] name \in {"run_dpsk_ocr_pdf.py", "run_dpsk_ocr_pdf_batch.py"}
            -> {"from config import ", "import torch <nl>", "class Colors:", "block_size=256,",
                "disable_mm_preprocessor_cache=True, <nl> )",
                    "from vllm.model_executor.models.registry import ModelRegistry",
                        "DeepseekOCRProcessor().tokenize_with_images("}
      [] name = "deepseek_ocr.py"
            -> {"from config import ",
                "self.vision_model = build_clip_l() ... # self.sam_model = torch.compile",
                    "patches = images_crop[jdx][0].to(torch.bfloat16) <nl> image_ori =",
                        "from vllm.model_executor import SamplingMetadata",
                "from vllm.model_executor.model_loader.utils import set_default_torch_dtype",
                        "from vllm.model_executor.models.utils import (..., merge_multimodal_embeddings)"}
      [] name = "process/image_process.py" -> {"from config import "}
      [] name = "config.py"
              -> {"# model spec section ... MODEL_PATH ... PROMPT", "INPUT_PATH = ''",
                  "OUTPUT_PATH = ''"}
      [] OTHER -> NoFile

\* create_directories_and_update_config: what it makes of config.py.
UpdatePaths(content) ==
    Substitute(Substitute(content, "INPUT_PATH = ''", "INPUT_PATH = '<vllm_path>/input'"),
               "OUTPUT_PATH = ''", "OUTPUT_PATH = '<vllm_path>/output'")
create_directories_and_update_config(fs) ==
    IF fs["config.py"] = NoFile THEN fs
    ELSE [fs EXCEPT !["config.py"] = UpdatePaths(@)]

\* create_backup copying the files of names that exist.
CopyExisting(to, from, names) ==
    [f \in FixerFiles |-> IF f \in names /\ from[f] # NoFile THEN from[f] ELSE to[f]]

\* create_backup(include_configs=True) as far as its first, second or third
\* loop: the scripts, the shared modules, the config files and the markers
\* of the config files that do not exist.
create_backup(fs, bk, loops) ==
    LET scripts == CopyExisting(bk.files, fs, Range(files_to_fix))
        shared == CopyExisting(scripts, fs, Range(shared_modules))
        configs == CopyExisting(shared, fs, Range(config_files))
    IN  [exists |-> TRUE,
         files |-> CASE loops = 0 -> bk.files
                     [] loops = 1 -> scripts
                     [] loops = 2 -> shared
                     [] OTHER -> configs,
         markers |-> IF loops = 3
                     THEN bk.markers \cup {f \in Range(config_files) : fs[f] = NoFile}
                     ELSE bk.markers]

\* restore_from_backup(backup_dir) with the backup bk: the scripts, the
\* shared modules (from .backup_shared when the backup has no copy), then
\* the config files, those with a marker being deleted.
restore_from_backup(fs, bk) ==
    [f \in FixerFiles |->
        IF f \in Range(config_files)
        THEN IF f \in bk.markers THEN NoFile
             ELSE IF bk.files[f] # NoFile THEN bk.files[f]
             ELSE fs[f]
        ELSE IF f \in Range(files_to_fix) \cup Range(shared_modules)
        THEN IF bk.files[f] # NoFile THEN bk.files[f]
             ELSE IF f \in Range(shared_modules) /\ fs[BackupShared(f)] # NoFile
             THEN fs[BackupShared(f)]
             ELSE fs[f]
        ELSE fs[f]]

\* _extract_core_config and the content of a new config file.
extract_core_config(config_content) ==
    IF "# model spec section ... MODEL_PATH ... PROMPT" \in config_content
            THEN "# model spec section ... MODEL_PATH ... PROMPT"
            ELSE "# default core section ... MODEL_PATH = 'deepseek-ai/DeepSeek-OCR'"
NewConfig(name, original_config) ==
    {"header of " \o name, extract_core_config(original_config),
     "paths of " \o name, "TOKENIZER"}

\* _update_script_config_imports, the scripts.
UpdateScriptImports(fs) ==
    [f \in FixerFiles |->
        IF f \in DOMAIN script_config_mapping /\ fs[f] # NoFile
           /\ "from config import " \in fs[f]
           /\ ConfigImport(script_config_mapping[f]) \notin fs[f]
        THEN Substitute(fs[f], "from config import ", ConfigImport(script_config_mapping[f]))
        ELSE fs[f]]

\* _update_shared_modules(modules, target_config)
update_shared_modules(fs, target_config) ==
    [f \in FixerFiles |->
        IF f \in Range(shared_modules) /\ fs[f] # NoFile
        THEN Substitute(fs[f], "from config import ", ConfigImport(target_config))
        ELSE IF \E m \in Range(shared_modules) :
                    f = BackupShared(m) /\ fs[m] # NoFile /\ fs[f] = NoFile
        THEN fs[CHOOSE m \in Range(shared_modules) : f = BackupShared(m)]
        ELSE fs[f]]

\* _add_memory_opt_pdf_batch and its three siblings: the gc import, the
\* cleanup function and the processor singleton.
add_memory_opt(content) ==
    LET c1 == IF "import torch <nl> import gc <nl>" \notin content
              THEN Substitute(content, "import torch <nl>", "import torch <nl> import gc <nl>")
                      ELSE content
        c2 == IF "def cleanup_memory(): ... class Colors:" \notin c1
              THEN Substitute(c1, "class Colors:", "def cleanup_memory(): ... class Colors:")
                      ELSE c1
    IN  Substitute(c2, "DeepseekOCRProcessor().tokenize_with_images(",
            "get_processor().tokenize_with_images(")

\* What the fixer instance finds under DeepSeek-OCR-vllm: all the scripts,
\* two of them or none; config.py as shipped, with its paths set, or missing;
\* process/image_process.py and an earlier config_image.py there or not.
Project(scripts, module, earlier, config) ==
    [f \in FixerFiles |->
        IF f \in Range(files_to_fix) THEN (IF f \in scripts THEN Shipped(f) ELSE NoFile)
        ELSE IF f = "process/image_process.py" THEN (IF module THEN Shipped(f) ELSE NoFile)
        ELSE IF f = "config.py" THEN config
        ELSE IF f = "config_image.py"
        THEN (IF earlier THEN NewConfig(f, UpdatePaths(Shipped("config.py"))) ELSE NoFile)
        ELSE NoFile]

Modifying == {"run_full_fix", "run_t4_fix_only", "run_vllm_fix_only",
              "create_separate_configs", "add_memory_optimization"}

InitFixer ==
    /\ NoBatch
    /\ fpc = "menu" /\ op = "none"
    /\ \E scripts \in {Range(files_to_fix),
                       {"run_dpsk_ocr_pdf_batch.py", "deepseek_ocr.py"}, {}},
          module \in BOOLEAN, earlier \in BOOLEAN,
          config \in {Shipped("config.py"), UpdatePaths(Shipped("config.py")), NoFile} :
          vllm_files = Project(scripts, module, earlier, config)
    /\ directories = {} /\ backup = NoBackup /\ stats = NoStats
    /\ backed_up = FALSE /\ original = vllm_files /\ before = vllm_files /\ ops = 0
    /\ returned = "none" /\ filename = "" /\ modified_by = {} /\ applied = 0

\* run_interactive: an option of the menu is chosen and its method called.
Choose ==
    /\ fpc = "menu" /\ ops < MaxOps
    /\ \E o \in Modifying \cup {"restore_from_backup"} :
          /\ op' = o
          /\ fpc' = IF o = "restore_from_backup" THEN "restore" ELSE "check"
          /\ stats' = IF o \in {"run_full_fix", "run_t4_fix_only", "run_vllm_fix_only"}
                      THEN NoStats ELSE stats
    /\ ops' = ops + 1 /\ backed_up' = FALSE /\ returned' = "none"
    /\ before' = vllm_files
    /\ UNCHANGED <<batch, original, filename, modified_by,
            applied, vllm_files, directories, backup>>

\* check_environment: at least one of files_to_fix exists.
Existing(fs, names) == {f \in names : fs[f] # NoFile}

\* Variant: the directories are created and config.py is updated before the
\* backup is made.
CheckEnvironment_UpdatesConfig ==
    /\ fpc = "check" /\ op \in Modifying \ {"create_separate_configs"}
    /\ IF Existing(vllm_files, Range(files_to_fix)) = {}
       THEN /\ returned' = "False" /\ fpc' = "menu"
            /\ UNCHANGED <<stats, vllm_files, directories>>
       ELSE /\ stats' = [stats EXCEPT !.total_files =
                            Cardinality(Existing(vllm_files, Range(files_to_fix)))]
            /\ vllm_files' = create_directories_and_update_config(vllm_files)
            /\ directories' = directories \cup {"input", "output"}
            /\ fpc' = "backup"
            /\ UNCHANGED returned
    /\ UNCHANGED <<batch, original, filename, modified_by, applied,
            op, backup, backed_up, before, ops>>

\* if not self.check_environment(): return False
CheckEnvironment ==
    /\ fpc = "check" /\ op \in Modifying \ {"create_separate_configs"}
    /\ IF Existing(vllm_files, Range(files_to_fix)) = {}
       THEN /\ returned' = "False" /\ fpc' = "menu"
            /\ UNCHANGED stats
       ELSE /\ stats' = [stats EXCEPT !.total_files =
                            Cardinality(Existing(vllm_files, Range(files_to_fix)))]
            /\ fpc' = "backup"
            /\ UNCHANGED returned
    /\ UNCHANGED <<batch, original, filename, modified_by, applied, op,
            vllm_files, directories, backup, backed_up, before, ops>>

\* create_separate_configs returns False without config.py.
CheckConfig ==
    /\ fpc = "check" /\ op = "create_separate_configs"
    /\ IF vllm_files["config.py"] = NoFile
       THEN returned' = "False" /\ fpc' = "menu"
       ELSE returned' = returned /\ fpc' = "backup"
    /\ UNCHANGED <<batch, original, filename, modified_by, applied, op,
            vllm_files, directories, backup, stats, backed_up,
                   before, ops>>

\* if not self.create_backup(): return False.  An exception leaves the
\* copies made so far and makes create_backup return False.
CreateBackup ==
    /\ fpc = "backup"
    /\ \E loops \in 0..3 :
          /\ backup' = IF loops = 0 THEN backup ELSE create_backup(vllm_files, backup, loops)
          /\ IF loops = 3
             THEN /\ backed_up' = TRUE /\ UNCHANGED returned
                  /\ fpc' = IF op = "run_vllm_fix_only" THEN "fix_vllm_imports"
                            ELSE "apply"
             ELSE backed_up' = FALSE /\ fpc' = "menu" /\ returned' = "False"
    /\ UNCHANGED <<batch, original, filename, modified_by, applied, op,
            vllm_files, directories, stats, before, ops>>

\* run_full_fix and run_t4_fix_only after the backup:
\* self.create_directories_and_update_config()
CreateDirectories ==
    /\ fpc = "apply" /\ op \in {"run_full_fix", "run_t4_fix_only"}
    /\ vllm_files' = create_directories_and_update_config(vllm_files)
    /\ directories' = directories \cup {"input", "output"}
    /\ fpc' = "fix_t4_file"
    /\ UNCHANGED <<batch, original, filename, modified_by, applied, op,
            backup, stats, backed_up, before, ops,
                   returned>>

\* for filename in self.files_to_fix: self.fix_t4_file(filename); applied
\* files of the list are done.  run_t4_fix_only returns True after the loop.
FixT4Files ==
    /\ fpc = "fix_t4_file"
    /\ LET r == fix_t4_file(vllm_files, stats, files_to_fix[applied + 1])
       IN  vllm_files' = r.files /\ stats' = r.stats
    /\ IF applied + 1 < Len(files_to_fix)
       THEN applied' = applied + 1 /\ UNCHANGED <<fpc, returned>>
       ELSE /\ applied' = 0
            /\ fpc' = IF op = "run_full_fix" THEN "fix_vllm_imports" ELSE "menu"
            /\ returned' = IF op = "run_full_fix" THEN returned ELSE "True"
    /\ UNCHANGED <<batch, original, filename, modified_by, op,
            directories, backup, backed_up, before, ops>>

\* for filename in self.files_to_fix: self.fix_vllm_imports(filename);
\* run_full_fix and run_vllm_fix_only return True after the loop.
FixVllmFiles ==
    /\ fpc = "fix_vllm_imports"
    /\ LET r == fix_vllm_imports(vllm_files, stats, files_to_fix[applied + 1])
       IN  vllm_files' = r.files /\ stats' = r.stats
    /\ IF applied + 1 < Len(files_to_fix)
       THEN applied' = applied + 1 /\ UNCHANGED <<fpc, returned>>
       ELSE applied' = 0 /\ fpc' = "menu" /\ returned' = "True"
    /\ UNCHANGED <<batch, original, filename, modified_by, op,
            directories, backup, backed_up, before, ops>>

\* create_separate_configs after the backup: the four config files and
\* their directories, then on request the imports of the scripts and of
\* the shared modules.
ApplySeparateConfigs ==
    /\ fpc = "apply" /\ op = "create_separate_configs"
    /\ \E confirm \in BOOLEAN, user_input \in {"skip", "config_image", "config_pdf_batch"} :
          LET written == [f \in FixerFiles |->
                             IF f \in Range(config_files) \ {"config.py"}
                             THEN NewConfig(f, vllm_files["config.py"])
                             ELSE vllm_files[f]]
              scripts == IF confirm THEN UpdateScriptImports(written) ELSE written
          IN  vllm_files' = IF confirm /\ user_input # "skip"
                            THEN update_shared_modules(scripts, user_input)
                            ELSE scripts
    /\ directories' = directories \cup (created_directories \ {"input", "output"})
    /\ returned' = "True" /\ fpc' = "menu"
    /\ UNCHANGED <<batch, original, filename, modified_by, applied, op,
            backup, stats, backed_up, before, ops>>

\* add_memory_optimization after the backup.
ApplyMemoryOptimization ==
    /\ fpc = "apply" /\ op = "add_memory_optimization"
    /\ vllm_files' = [f \in FixerFiles |->
                         IF f \in DOMAIN script_config_mapping /\ vllm_files[f] # NoFile
                         THEN add_memory_opt(vllm_files[f])
                         ELSE vllm_files[f]]
    /\ returned' = "True" /\ fpc' = "menu"
    /\ UNCHANGED <<batch, original, filename, modified_by, applied, op,
            directories, backup, stats, backed_up, before, ops>>

\* restore_from_backup(self.backup_dir): False when there is no backup
\* directory; otherwise the files are restored and, on request, the
\* (empty) directories the fixer created are deleted.
RestoreFromBackup ==
    /\ fpc = "restore"
    /\ IF ~backup.exists
       THEN returned' = "False" /\ UNCHANGED <<vllm_files, directories>>
       ELSE /\ returned' = "True"
            /\ vllm_files' = restore_from_backup(vllm_files, backup)
            /\ \E delete_dirs \in BOOLEAN :
                  directories' = IF delete_dirs THEN directories \ created_directories
                                 ELSE directories
    /\ fpc' = "menu"
    /\ UNCHANGED <<batch, original, filename, modified_by, applied, op,
            backup, stats, backed_up, before, ops>>

NextFixer ==
    \/ Choose
    \/ CheckEnvironment
    \/ CheckConfig
    \/ CreateBackup
    \/ CreateDirectories
    \/ FixT4Files
    \/ FixVllmFiles
    \/ ApplySeparateConfigs
    \/ ApplyMemoryOptimization
    \/ RestoreFromBackup

SpecFixer == InitFixer /\ [][NextFixer]_vars

----------------------------------------------------------------------------
\* The state a document is in: pending until the try block is entered,
\* processing inside it, and afterwards the status of its result.
Processing == TrySteps \cup {"stats"}
Final == {"skipped", "success", "failed"}
DocState(d) ==
    IF d <= Len(results) THEN results[d].status
    ELSE IF d = i /\ pc \in Processing THEN "processing"
    ELSE "pending"
NoCalls == [rasterize |-> 0, preprocess |-> 0, generate |-> 0]

\* C1: a document is skipped if and only if its <name>.mmd existed when the
\* batch reached it (once the resumability check has been made), and for a
\* skipped document rasterizer, request builder and gateway never ran.
C1_SkippedIffMmdExists ==
    \A d \in Docs :
        /\ DocState(d) = "skipped" => d \in existed /\ calls[d] = NoCalls
        /\ d \in existed => DocState(d) = "skipped" \/ (d = i /\ pc = "check")
        /\ DocState(d) \in {"processing", "success", "failed"} => d \notin existed

C1_Witness ==
    \E d, e \in Docs :
        /\ DocState(d) = "skipped" /\ d \in existed
        /\ DocState(e) = "success" /\ e \notin existed /\ calls[e].generate = 1

\* C2: every document follows pending -> (skipped | processing -> (success |
\* failed)): the three final statuses are never left, a skipped document was
\* never processing, a processing document never ends as skipped, and when the
\* loop is through every document has exactly one result with a final status.
C2_Allowed(from, to) ==
    \/ from = to
    \/ from = "pending" /\ to \in {"skipped", "processing"}
    \/ from = "processing" /\ to \in {"success", "failed"}
C3_SkipLeavesFilesUnchanged ==
    \A d \in existed :
        /\ files[d] = files0[d]
        /\ d <= Len(results) => results[d] = SkippedResult(d)

C3_Witness ==
    /\ pc = "done"
    /\ \E d \in existed : results[d].status = "skipped" /\ DOMAIN files[d] # {}
    /\ \E e \in Docs : files[e] # files0[e]

\* C4: an exception raised by a step of processing a document makes that
\* document's result failed with the error message, and the loop goes on:
\* results always holds one entry per document handled so far, in discovery
\* order, and one entry per discovered document when the loop is through.
C4_FailureIsPerDocument ==
    /\ Len(results) = i - 1
    /\ \A d \in 1..Len(results) :
          /\ results[d].pdf_name = pdf_name(d)
          /\ raised[d] # "" => results[d].status = "failed" /\ results[d].error = raised[d]
    /\ pc = "done" => Len(results) = pdf_files

C4_Witness ==
    /\ pc = "done" /\ pdf_files = NumDocs
    /\ results[1].status = "failed" /\ raised[1] = ErrorAt("generate")
    /\ results[NumDocs].status = "success"

\* C5: no error arising while the batch handles one document, the creation of
\* its output directories included, ends the whole run.
C5_ErrorsNeverEndTheRun == pc # "crashed"

\* C6: no output file of a document is written while pages of it are still to
\* be post-processed, and a failed document has no output file written.
C6_NoOutputBeforeAllPages ==
    \A d \in Docs :
        /\ d = i /\ pc = "post" /\ k <= images => files[d] = files0[d]
        /\ DocState(d) = "failed" => files[d] = files0[d]

\* C7: when the inference call of a document raises, the document is failed
\* and no transcript, annotated PDF or crop of it is written.
C7_GatewayErrorFailsDocument ==
    \A d \in 1..Len(results) :
        raised[d] = ErrorAt("generate") =>
            /\ results[d].status = "failed"
            /\ files[d] = files0[d]

C7_Witness ==
    \E d \in 1..Len(results) :
        /\ raised[d] = ErrorAt("generate") /\ calls[d].generate = 1
        /\ results[d] = FailedResult(d, ErrorAt("generate"))

\* C8: the index naming the crops of one document is strictly increasing over
\* its image regions in page and text order, so no crop name is used twice.
C8_ImageIndexNeverReused ==
    \A m, n \in DOMAIN saved :
        m < n => saved[m].idx < saved[n].idx /\ saved[m].name # saved[n].name

\* C9: every image link of the clean text names the file under which the crop
\* of the same region was saved.
C9_LinkNamesSavedCrop ==
    \A n \in DOMAIN linked :
        /\ linked[n].name \in DOMAIN files[i]
        /\ \E m \in DOMAIN saved :
              /\ saved[m].name = linked[n].name
              /\ saved[m].page = linked[n].page /\ saved[m].tag = linked[n].tag

\* C10: with SKIP_REPEAT, a page without the sentinel puts nothing into the
\* clean transcript and is not counted in processed_pages but is counted in
\* total_pages; a 2-page document with one such page reports 1 and 2.
HasEOS(text) == EOS \in Range(text)
C10_Degenerate(upto) == {p \in 1..upto : ~HasEOS(outputs_list[p])}
C10_SkippedPagesNotCounted ==
    /\ [](SKIP_REPEAT /\ pc \in {"post", "write_mmd", "write_pdf", "stats"} =>
            /\ processed_pages = (k - 1) - Cardinality(C10_Degenerate(k - 1))
            /\ \A p \in C10_Degenerate(k - 1) :
                  \A t \in Range(outputs_list[p]) : t \notin Range(contents))
    /\ [][SKIP_REPEAT /\ pc = "stats" /\ pc' = "main" /\ processed_pages > 0 =>
            LET r == results'[i]
                bad == Cardinality(C10_Degenerate(images))
            IN  /\ r.status = "success"
                /\ r.total_pages = images
                /\ r.processed_pages = images - bad
                /\ images = 2 /\ bad = 1 => r.processed_pages = 1 /\ r.total_pages = 2]_vars

C10_Witness ==
    /\ SKIP_REPEAT
    /\ \E d \in 1..Len(results) :
          /\ results[d].status = "success"
          /\ results[d].total_pages = 2 /\ results[d].processed_pages = 1
          /\ Body(1) \in Range(files[d][mmd_path(d)])
          /\ Body(2) \notin Range(files[d][mmd_path(d)])

\* The tagged text of the pages 1..n of the current document that are in
\* kept, each followed by the page separator.
RECURSIVE TaggedPages(_, _)
TaggedPages(n, kept) ==
    IF n = 0 THEN <<>>
    ELSE TaggedPages(n - 1, kept)
         \o (IF n \in kept THEN Remove(outputs_list[n], EOS) \o <<page_num>> ELSE <<>>)
C11_Kept == {p \in 1..images : HasEOS(outputs_list[p]) \/ ~SKIP_REPEAT}
C11_Written == pc \in {"write_mmd", "write_pdf", "stats"}

\* C11 (as stated): with SKIP_REPEAT set, once the outputs of a document are
\* written, <name>_det.mmd holds the text of every page of the document, each
\* followed by the separator, and the annotated PDF has one page per page of
\* the document.
C11_DegeneratePagesStayTagged ==
    C11_Written /\ SKIP_REPEAT =>
        /\ files[i][mmd_det_path(i)] = TaggedPages(images, 1..images)
        /\ Len(draw_images) = images
        /\ pdf_out_path(i) \in DOMAIN files[i] =>
              Len(files[i][pdf_out_path(i)]) = images

\* C11 (amended): <name>_det.mmd holds the text of exactly the kept pages (all
\* pages without SKIP_REPEAT, the pages with the sentinel under it), in page
\* order and each followed by the separator, and the annotated PDF, when it is
\* written, has exactly one page per kept page.
C11_DegeneratePagesDroppedEverywhere ==
    C11_Written =>
        /\ files[i][mmd_det_path(i)] = TaggedPages(images, C11_Kept)
        /\ Len(draw_images) = Cardinality(C11_Kept)
        /\ pdf_out_path(i) \in DOMAIN files[i] =>
              Len(files[i][pdf_out_path(i)]) = Len(draw_images)

C11_Witness ==
    /\ pc = "stats" /\ SKIP_REPEAT /\ images = 2
    /\ Cardinality(C11_Kept) = 1
    /\ pdf_out_path(i) \in DOMAIN files[i]
    /\ Len(files[i][pdf_out_path(i)]) = 1
    /\ Len(files[i][mmd_det_path(i)]) > 0

\* C12: every normalized coordinate in 0..999 is mapped into the bitmap:
\* 0 <= pixel <= dimension, for every dimension.
C12_PixelWithinBitmap ==
    pc = "mapped" => 0 <= pixel /\ pixel <= dimension

C12_Witness ==
    /\ pc = "mapped" /\ coordinate = Scale /\ dimension > 0 /\ pixel = dimension

\* C13 (as stated): the pixel coordinate is the integer nearest to
\* coordinate / 999 * dimension.
C13_NearestInteger ==
    pc = "mapped" =>
        /\ 2 * coordinate * dimension - Scale <= 2 * Scale * pixel
        /\ 2 * Scale * pixel <= 2 * coordinate * dimension + Scale

\* C13 (amended): the pixel coordinate is coordinate / 999 * dimension cut
\* off, never rounded up: it is the integer part of the quotient, or, when
\* the quotient is itself an integer, that integer or the one below it.
C13_Truncated ==
    pc = "mapped" =>
        /\ Scale * pixel <= coordinate * dimension
        /\ coordinate * dimension <= Scale * (pixel + 1)
        /\ (coordinate * dimension) % Scale # 0 =>
              coordinate * dimension < Scale * (pixel + 1)

C13_Witness ==
    /\ pc = "mapped"
    /\ 2 * ((coordinate * dimension) % Scale) > Scale
    /\ Scale * pixel < coordinate * dimension
    /\ coordinate * dimension < Scale * (pixel + 1)

\* The image matches of the current document so far, in text order.
ImageTags == SelectSeq(contents_det, LAMBDA t : IsTag(t) /\ t.a = "image")

\* C14: when the first image region of a document has the coordinate text
\* [[0, 0, 999, 999]] and its page is 1000 x 1000, the region is cropped at
\* the pixel rectangle (0, 0, 1000, 1000) and saved as the image with index 0.
C14_FullPageRegionIsImageZero ==
    ImageTags # <<>> /\ ImageTags[1].b = FullPage /\ ImageWidth = 1000
    /\ ImageHeight = 1000 =>
        \E n \in DOMAIN saved :
            /\ saved[n].tag = ImageTags[1]
            /\ saved[n].rect = <<0, 0, 1000, 1000>>
            /\ saved[n].idx = 0
            /\ saved[n].name = CropPath(0)

\* The tag matches of the pages that went through the loop so far.
Matches == Range(SelectSeq(contents_det, IsTag))
\* The coordinate text of t is a list of 4-tuples.
Decodable(t) ==
    /\ ~eval(t.b).raised
    /\ \A j \in DOMAIN eval(t.b).val : Len(eval(t.b).val[j]) = 4
BoxesOf(t) == {n \in DOMAIN boxes : boxes[n].tag = t}
CropsOf(t) == {n \in DOMAIN saved : saved[n].tag = t}

\* C15: a match whose coordinate text is no list of 4-tuples is dropped
\* whole, nothing is drawn and nothing is cropped for it, while every other
\* match of the page gets its boxes, and the page is in both transcripts.
C15_UndecodableMatchDropped ==
    /\ \A t \in Matches :
          IF Decodable(t)
          THEN Cardinality(BoxesOf(t)) >= Len(eval(t.b).val)
          ELSE BoxesOf(t) = {} /\ CropsOf(t) = {}
    /\ Len(draw_images) = processed_pages

\* C16: a tag whose coordinate text is no list of 4-tuples is matched like any
\* other tag, its page goes through the loop, and the tag is not part of the
\* clean transcript, neither while it is built nor in <name>.mmd.
C16_MalformedTagNotInCleanText ==
    \A t \in Matches :
        ~Decodable(t) =>
            /\ t \notin Range(contents)
            /\ Len(draw_images) = processed_pages
            /\ pc \in {"write_pdf", "stats"} => t \notin Range(files[i][mmd_path(i)])

C16_Witness ==
    /\ pc = "stats" /\ processed_pages = images
    /\ \E t \in Matches : ~Decodable(t) /\ t.a = "title"
    /\ \E t \in Matches : ~Decodable(t) /\ t.a = "image"
    /\ Body(images) \in Range(files[i][mmd_path(i)])

\* C17: every match is in exactly one partition; a match has a saved crop
\* and an image link exactly when it is in the image partition, and a match
\* of the other partition is boxed and has neither a crop nor a link.
C17_PartitionDecidesHandling ==
    \A t \in Matches :
        LET inImage == t \in Range(matches_images(contents_det))
            inOther == t \in Range(mathes_other(contents_det))
            isLinked == \E n \in DOMAIN linked : linked[n].tag = t
        IN  /\ inImage # inOther
            /\ inImage <=> CropsOf(t) # {}
            /\ inImage <=> isLinked
            /\ inOther => BoxesOf(t) # {}

\* The longest run of newlines in content.
RECURSIVE LongestRun(_, _)
LongestRun(content, run) ==
    IF content = <<>> THEN run
    ELSE LET rest == LongestRun(Tail(content), IF Head(content) = NL THEN run + 1 ELSE 0)
         IN  IF rest > run THEN rest ELSE run

\* C18: the clean transcript holds no tag of the other partition, neither of
\* the two escapes, and no run of more than three newlines (three or more
\* blank lines).
C18_CleanTextIsNormalised ==
    /\ \A t \in Range(contents) : ~IsTag(t)
    /\ Coloneqq \notin Range(contents) /\ Eqqcolon \notin Range(contents)
    /\ LongestRun(contents, 0) <= 3

\* The text of a transcript: tags dropped, image links dropped with the
\* newline that ends them, every run of newlines taken as one newline.
RECURSIVE OneNewline(_)
OneNewline(content) ==
    IF Len(content) < 2 THEN content
    ELSE IF content[1] = NL /\ content[2] = NL THEN OneNewline(Tail(content))
    ELSE <<Head(content)>> \o OneNewline(Tail(content))
RECURSIVE DropLinks(_)
DropLinks(content) ==
    IF content = <<>> THEN <<>>
    ELSE IF Head(content).kind = "link"
         THEN DropLinks(IF Len(content) >= 2 /\ content[2] = NL
                        THEN Tail(Tail(content)) ELSE Tail(content))
         ELSE <<Head(content)>> \o DropLinks(Tail(content))
Stripped(content) ==
    OneNewline(DropLinks(SelectSeq(content, LAMBDA t : ~IsTag(t))))
Unescaped(content) == Replace(Replace(content, Coloneqq, ColonEq), Eqqcolon, EqColon)
C19_Pages(content) == Len(SelectSeq(content, LAMBDA t : t = page_num))

C20_RequestsAndResultsInPageOrder ==
    /\ \A j \in DOMAIN batch_inputs : batch_inputs[j] = j
    /\ pc \in {"generate", "post", "write_mmd", "write_pdf", "stats"} =>
          Len(batch_inputs) = images
    /\ \A j \in DOMAIN outputs_list : Body(j) \in Range(outputs_list[j])
    /\ \A n \in DOMAIN saved : saved[n].tag \in Range(outputs_list[saved[n].page])
    /\ \A n \in DOMAIN boxes : boxes[n].tag \in Range(outputs_list[boxes[n].page])

C20_Witness ==
    /\ pc = "generate" /\ images = 2
    /\ finished = <<2, 1>>
    /\ batch_inputs = <<1, 2>>

\* C21: at most one document is in processing and at most one inference call
\* is in flight; a document makes at most one inference call, makes exactly
\* one when it is not skipped and its rasterization and pre-processing
\* succeeded, and the call starts only when every pre-processing task of
\* the document has completed.
BeforeInference == {ErrorAt("rasterize"), ErrorAt("preprocess"), ErrorAt("map")}
AllTasksCompleted ==
    /\ Len(finished) = images
    /\ \A p \in 1..images : \E j \in DOMAIN finished : finished[j] = p
C21_OneInferenceCallAfterAllTasks ==
    /\ [](Cardinality({d \in Docs : DocState(d) = "processing"}) <= 1)
    /\ [](\A d \in Docs : calls[d].generate <= 1)
    /\ [](pc = "generate" =>
            /\ AllTasksCompleted
            /\ \A p \in DOMAIN futures : futures[p].state # "running"
            /\ calls[i].generate = 0)
    /\ [](\A d \in 1..Len(results) :
            (results[d].status # "skipped" /\ raised[d] \notin BeforeInference)
                => calls[d].generate = 1)
    /\ [][\A d \in Docs : calls'[d].generate # calls[d].generate =>
                /\ d = i /\ pc = "generate" /\ AllTasksCompleted
                /\ calls'[d].generate = calls[d].generate + 1]_vars

C21_Witness ==
    /\ pc = "post" /\ i = 2 /\ images = 2
    /\ calls[1].generate = 1 /\ calls[2].generate = 1
    /\ results[1].status = "failed"

\* C22: after a run the three status counts add up to the number of
\* discovered documents, each being the number of documents with that
\* status; the aggregate total_pages and processed_pages are the sums over
\* exactly the successful documents; and the throughput is derived from that
\* processed_pages sum.  Nothing is aggregated before the loop is through.
DocsWith(status) == {d \in 1..Len(results) : results[d].status = status}
RECURSIVE SumOverDocs(_, _)
SumOverDocs(D, field) ==
    IF D = {} THEN 0
    ELSE LET d == CHOOSE e \in D : TRUE
         IN  results[d][field] + SumOverDocs(D \ {d}, field)
C22_SummaryAggregatesSuccessfulDocuments ==
    /\ pc = "done" =>
          /\ summary.success_count + summary.failed_count + summary.skipped_count
                = pdf_files
          /\ summary.success_count = Cardinality(DocsWith("success"))
          /\ summary.failed_count = Cardinality(DocsWith("failed"))
          /\ summary.skipped_count = Cardinality(DocsWith("skipped"))
          /\ summary.total_pages = SumOverDocs(DocsWith("success"), "total_pages")
          /\ summary.processed_pages
                = SumOverDocs(DocsWith("success"), "processed_pages")
          /\ summary.throughput_pages = summary.processed_pages
    /\ pc # "done" => summary = NoSummary

C22_Witness ==
    /\ pc = "done" /\ pdf_files = 2
    /\ summary.success_count = 1 /\ summary.skipped_count = 1
    /\ summary.total_pages = 2 /\ summary.processed_pages = 1

\* C23: when no input document is discovered the run ends with exit status 1;
\* no document is processed, no result is produced, no output directory or
\* file is created or changed, and no summary is printed.  With at least one
\* document discovered the run does not end that way.
C23_NoDocumentsIsFatal ==
    /\ [](pc = "exit(1)" <=> (pc # "start" /\ pdf_files = 0))
    /\ [](pdf_files = 0 =>
            /\ results = <<>> /\ i = 1 /\ summary = NoSummary
            /\ files = files0 /\ dirs = [d \in Docs |-> IF DOMAIN files0[d] = {} THEN 0 ELSE 2]
            /\ \A d \in Docs : calls[d] = NoCalls /\ raised[d] = "")
    /\ [][pc = "exit(1)" => pc' = "exit(1)"]_vars

C23_Witness == pc = "exit(1)" /\ pdf_files = 0 /\ results = <<>>

\* C28: a document ends with status failed only if its <name>.mmd was not
\* written, so that the next run processes it again; equivalently, once a
\* document was processed its <name>.mmd is there if and only if its
\* status is success.
Processed(d) == d <= Len(results) /\ results[d].status # "skipped"
C28_FailedDocumentHasNoMmd ==
    \A d \in Docs :
        Processed(d) => (mmd_path(d) \in DOMAIN files[d] <=> results[d].status = "success")

\* C29: every result with status success has processed_pages >= 1 (and no
\* more than total_pages), so with at least one success the aggregate
\* processed_pages is positive and the summary's divisions by it never
\* raise: the summary always completes.
C29_SuccessHasProcessedPages ==
    /\ [](\A d \in DocsWith("success") :
            /\ results[d].processed_pages >= 1
            /\ results[d].processed_pages <= results[d].total_pages)
    /\ [](pc = "done" /\ summary.success_count > 0 => summary.processed_pages > 0)
    /\ [][pc = "main" /\ i > pdf_files => pc' = "done"]_vars

C29_Witness ==
    /\ pc = "done" /\ summary.success_count = 1 /\ summary.processed_pages = 1
    /\ results[1].status = "failed" /\ raised[1] = "division by zero"
    /\ results[2].total_pages = 2

\* C30: a document reported with status success has its three output files
\* in its output directory: <name>.mmd, <name>_det.mmd and
\* <name>_layouts.pdf.
OutputFiles(d) == {mmd_path(d), mmd_det_path(d), pdf_out_path(d)}
C30_SuccessHasAllOutputs ==
    \A d \in DocsWith("success") : OutputFiles(d) \subseteq DOMAIN files[d]

\* C25: a region whose rectangle has no width or no height after the
\* coordinate mapping is neither drawn nor cropped, the regions of the
\* other matches of the page are still drawn, and the annotated image of
\* the page is still returned.
Degenerate(rect) == ~CropSaves(rect)
C25_DegenerateRegionSkipped ==
    /\ \A n \in DOMAIN boxes : ~Degenerate(boxes[n].rect)
    /\ \A n \in DOMAIN saved : ~Degenerate(saved[n].rect)
    /\ \A t \in Matches :
          (Decodable(t) /\ \A j \in DOMAIN eval(t.b).val : ~Degenerate(Rect(eval(t.b).val[j])))
              => Cardinality(BoxesOf(t)) >= Len(eval(t.b).val)
    /\ Len(draw_images) = processed_pages

\* C27: applying fix_t4_file or fix_vllm_imports to a file that the same fix
\* has already modified leaves the file as it is, reports no fix, counts
\* the file as skipped and not as fixed, and does not increase
\* fixes_applied.
C27_Idempotent(fix) ==
    (fix \in modified_by /\ op' = fix /\ applied' = applied + 1)
        => /\ vllm_files' = vllm_files
           /\ returned' = "False"
           /\ stats'.fixed_files = stats.fixed_files
           /\ stats'.fixes_applied = stats.fixes_applied
C27_FixAppliedAgainIsSkipped ==
    [][\A fix \in {"fix_t4_file", "fix_vllm_imports"} :
          /\ C27_Idempotent(fix)
          /\ (fix \in modified_by /\ op' = fix /\ applied' = applied + 1)
                => stats'.skipped_files = stats.skipped_files + 1]_vars

\* The scripts, shared modules and config files restore_from_backup handles.
C24_Restorable == Range(files_to_fix) \cup Range(shared_modules) \cup Range(config_files)

\* C24: after any sequence of modifying operations of one fixer instance,
\* restore_from_backup with the instance's backup directory returns every
\* script, shared module and config file to the content it had before the
\* first of those operations, the config files that did not exist then being
\* deleted.
C24_RestoreUndoesAllModifications ==
    (fpc = "menu" /\ op = "restore_from_backup" /\ returned = "True")
        => \A f \in C24_Restorable : vllm_files[f] = original[f]

\* C26: in each modifying operation no file or directory under
\* DeepSeek-OCR-vllm is modified or created before create_backup has
\* returned success in that invocation, and an operation that returns False
\* because the environment check or the backup failed has left the files as
\* they were when it was called.
C26_NothingModifiedBeforeBackup ==
    /\ []((op \in Modifying /\ ~backed_up) => vllm_files = before)
    /\ [][(op \in Modifying /\ (vllm_files' # vllm_files \/ directories' # directories))
              => (backed_up /\ op' = op)]_vars

C26_Witness ==
    /\ op \in Modifying /\ backed_up /\ fpc = "menu" /\ returned = "True"
    /\ vllm_files # before
====
